---- MODULE Spec2Model ----
(***************************************************************************)
(* A model of pyAMOSA (src/AMOSA.py): the dominance comparator, the        *)
(* archive insertion and pruning, the evaluation cache and its sharded     *)
(* persistence.                                                            *)
(*                                                                         *)
(* A solution point is the record [x, f, g] of the Python dictionary       *)
(* {"x": ..., "f": ..., "g": ...}.  Python lists are sequences.  "g" is    *)
(* None exactly when the problem has no constraints (AMOSA.py:183), and a  *)
(* constrained problem has a non-empty "g", so the empty sequence stands   *)
(* for None.                                                               *)
(***************************************************************************)
EXTENDS Integers, Sequences, FiniteSets, TLC

VARIABLES
    \* the archive driven by add_to_archive, and the history of the calls
    archive, lastPoint, lenBefore, isRepeat, nCalls, aProblem,
    \* remove_dominated applied to an input list
    rdInput, rdOutput, rdDone,
    \* dominates applied to a pair of points, and its results
    px, py, domXY, domYX, domXX, cmpDone,
    \* the problem's cache and counters, the point get_objectives filled last,
    \* and what its calls did: vectors passed, hits, misses, evaluate calls
    cache, total_calls, cache_hits, lastS, seenX, nHits, nMisses, nEvaluate,
    \* MultiFileCacheHandle: the cache handed to write, the directory, the
    \* shard limit in bytes, the position in write-then-read, read's result
    pCache, pDir, pLimit, pPc, pRead,
    \* get_objectives called with a vector of typed values: the values, their
    \* runtime types, whether the call raised, how often it called evaluate
    tcX, tcKinds, tcRaised, tcEvaluated, tcCalls,
    \* AMOSAConfig(...): the arguments, and how the constructor ended
    cfgArgs, cfgPc,
    \* kmeans_clustering or clustering applied to a list of points: the call,
    \* the list, the number of clusters or the hard limit, max_iterations,
    \* whether the problem has constraints, how the call ended, its result
    kOp, kArchive, kNum, kMaxIt, kConstrained, kPc, kOut,
    \* hill_climbing or random_perturbation on a problem of sN variables: the
    \* call, the problem, the point the call started from, the current point
    \* x, the point y or z being changed, the direction d and up, the round
    \* of hill_climbing and max_iterations, the strength, safety_exit, the
    \* rounds of the safety loop in the current step, the position, and
    \* whether the closing get_objectives found the vector in the cache
    sOp, sN, sUpper, sProblem, sStart, sX, sY, sD, sUp, sIt, sMaxIt, sStrength,
    sSafety, sRounds, sPc, sLastHit,
    \* domination_amount(a, b, r) with r = compute_fitness_range(archive,
    \* current_point, new_point): the arguments, whether warnings are raised
    \* as errors, how the call ended and its value
    daArchive, daCurrent, daNew, daA, daB, daWarningsAreErrors, daPc, daValue,
    \* AMOSA.run: the configuration, whether the problem has constraints,
    \* the checkpoint files on disk, whether a prior archive is given
    \* (improve), remove_checkpoints, the initialisation path taken, whether
    \* hill climbing ran, the position, the archive, the length it had when
    \* the annealing loop started, the temperature, the temperature steps and
    \* the trials of the current step, whether early termination fired
    rConfig, rConstrained, rFiles, rImprove, rRemove, rPath, rHillClimbed,
    rPc, rArchive, rStartLen, rTemperature, rSteps, rTrials, rEarly,
    \* nondominated_merge: the archives given, the position, the result
    mArchives, mPc, mOut

archiveVars == <<archive, lastPoint, lenBefore, isRepeat, nCalls, aProblem>>
rdVars == <<rdInput, rdOutput, rdDone>>
domVars == <<px, py, domXY, domYX, domXX, cmpDone>>
cacheVars ==
    <<cache, total_calls, cache_hits, lastS, seenX, nHits, nMisses, nEvaluate>>
persistVars == <<pCache, pDir, pLimit, pPc, pRead>>
tcVars == <<tcX, tcKinds, tcRaised, tcEvaluated, tcCalls>>
\* the variables of the specifications that follow SpecPersist
cfgVars == <<cfgArgs, cfgPc>>
kVars == <<kOp, kArchive, kNum, kMaxIt, kConstrained, kPc, kOut>>
sVars ==
    <<sOp, sN, sUpper, sProblem, sStart, sX, sY, sD, sUp, sIt, sMaxIt,
      sStrength, sSafety, sRounds, sPc, sLastHit>>
daVars ==
    <<daArchive, daCurrent, daNew, daA, daB, daWarningsAreErrors, daPc, daValue>>
rVars ==
    <<rConfig, rConstrained, rFiles, rImprove, rRemove, rPath, rHillClimbed,
      rPc, rArchive, rStartLen, rTemperature, rSteps, rTrials, rEarly>>
mVars == <<mArchives, mPc, mOut>>
laterVars == <<tcVars, cfgVars, kVars, sVars, daVars, rVars, mVars>>
vars == <<archiveVars, rdVars, domVars, cacheVars, persistVars, laterVars>>

\* what the actions of one specification leave alone
notArchiveVars == <<rdVars, domVars, cacheVars, persistVars, laterVars>>
notRdVars == <<archiveVars, domVars, cacheVars, persistVars, laterVars>>
notDomVars == <<archiveVars, rdVars, cacheVars, persistVars, laterVars>>
notCacheVars == <<archiveVars, rdVars, domVars, persistVars, laterVars>>
notPersistVars == <<archiveVars, rdVars, domVars, cacheVars, laterVars>>
firstVars == <<archiveVars, rdVars, domVars, cacheVars, persistVars>>
notTypedVars ==
    <<archiveVars, rdVars, domVars, persistVars, cfgVars, kVars, sVars, daVars,
      rVars, mVars>>
notCfgVars == <<firstVars, tcVars, kVars, sVars, daVars, rVars, mVars>>
notKVars == <<firstVars, tcVars, cfgVars, sVars, daVars, rVars, mVars>>
notSVars == <<firstVars, tcVars, cfgVars, kVars, daVars, rVars, mVars>>
notDaVars == <<firstVars, tcVars, cfgVars, kVars, sVars, rVars, mVars>>
notRVars == <<firstVars, tcVars, cfgVars, kVars, sVars, daVars, mVars>>
notMVars == <<firstVars, tcVars, cfgVars, kVars, sVars, daVars, rVars>>

(***************************************************************************)
(* Bounds of the model.                                                    *)
(***************************************************************************)
\* largest coordinate of the decision vectors inserted in the archive
MaxCoord == 2
\* number of add_to_archive calls in one run of the archive specification
MaxInserts == 4
\* longest input list of remove_dominated
MaxInput == 3
\* objective values of the compared points are 0, 5, ..., 5 * MaxObjIdx
MaxObjIdx == 5
\* decision variables passed to get_objectives are 0..MaxSmall and
\* 10..10 + MaxSmall, inside the test problem's bounds [0, 100]
MaxSmall == 1
\* number of get_objectives calls in one run of the cache specification
MaxEvals == 3
\* number of get_objectives calls with typed vectors in one run
MaxTypedCalls == 2
\* the clustered points have the objective vectors <<3t, 4(MaxLine - t)>>,
\* t in 0..MaxLine
MaxLine == 2
\* longest list of points handed to kmeans_clustering and clustering
MaxArchive == 3
\* largest number of clusters and largest hard limit
MaxClusters == 2
\* the problems searched have 1..MaxVariables variables
MaxVariables == 2
\* their variables are INTEGER with the bounds [0, MaxUpper]
MaxUpper == 2
\* largest max_iterations of hill_climbing
MaxHillIterations == 2
\* longest archive handed to compute_fitness_range
MaxRangeArchive == 2
\* longest list of points a run is given: a checkpoint's archive, a prior
\* archive, the pool of the hill climber
MaxGiven == 3
\* cap of the temperature steps of one run
MaxTemperatureSteps == 8
\* most archives given to nondominated_merge, and longest of them
MaxMerged == 2
MaxMergedLen == 2

NoneG == <<>>

Min(a, b) == IF a <= b THEN a ELSE b

Range(s) == {s[i] : i \in DOMAIN s}

\* zip(a, b) stops at the shorter list: the indices it pairs
ZipIdx(a, b) == 1..Min(Len(a), Len(b))

(***************************************************************************)
(* The problem of src/test.py: two INTEGER variables, two objectives, no   *)
(* constraints, evaluate sets out["f"] = x and leaves out["g"] None.       *)
(***************************************************************************)
TestEvaluate(x) == [f |-> x, g |-> NoneG]

TestPoint(x) == [x |-> x, f |-> TestEvaluate(x).f, g |-> TestEvaluate(x).g]

\* the evaluated points of the test problem with coordinates in 0..MaxCoord
TestPoints == {TestPoint(<<a, b>>) : a \in 0..MaxCoord, b \in 0..MaxCoord}

(***************************************************************************)
(* The problem of src/problems/BNH.py: two REAL variables in [0,5] x [0,3], *)
(* two objectives, two constraints.  The points taken are those with whole *)
(* coordinates.  The constraints are held times 10 (g2 has the term 7.7):  *)
(* the code only compares constraint values with each other and with 0.    *)
(***************************************************************************)
BNHEvaluate(x) ==
    [f |-> <<4 * x[1] * x[1] + 4 * x[2] * x[2],
             (x[1] - 5) * (x[1] - 5) + (x[2] - 5) * (x[2] - 5)>>,
     g |-> <<10 * ((x[1] - 5) * (x[1] - 5) + x[2] * x[2] - 25),
             77 - 10 * (x[1] - 5) * (x[1] - 5) - 10 * (x[2] + 3) * (x[2] + 3)>>]

BNHPoint(x) == [x |-> x, f |-> BNHEvaluate(x).f, g |-> BNHEvaluate(x).g]

\* the evaluated points of BNH with whole coordinates up to MaxCoord
BNHPoints ==
    {BNHPoint(<<a, b>>) : a \in 0..Min(MaxCoord, 5), b \in 0..Min(MaxCoord, 3)}

\* the points a run on the problem may offer to the archive
ProblemPoints(kind) == IF kind = "BNH" THEN BNHPoints ELSE TestPoints

\* stands for "no point yet" in the history variables
NoPoint == [x |-> <<>>, f |-> <<>>, g |-> NoneG]

(***************************************************************************)
(* Dominance (AMOSA.py:163-206).                                           *)
(***************************************************************************)
is_the_same(x, y) == x.x = y.x

not_the_same(x, y) == x.x # y.x

x_is_feasible_while_y_is_nor(x, y) ==
    /\ \A i \in DOMAIN x.f : x.f[i] <= 0
    /\ \E i \in DOMAIN y.g : y.g[i] > 0

both_infeasible_but_x_is_better(x, y) ==
    /\ \E i \in DOMAIN x.g : x.g[i] > 0
    /\ \E i \in DOMAIN y.g : y.g[i] > 0
    /\ \A k \in ZipIdx(x.g, y.g) : x.g[k] <= y.g[k]
    /\ \E k \in ZipIdx(x.g, y.g) : x.g[k] < y.g[k]

both_feasible_but_x_is_better(x, y) ==
    /\ \A i \in DOMAIN x.g : x.g[i] <= 0
    /\ \A i \in DOMAIN y.g : y.g[i] <= 0
    /\ \A k \in ZipIdx(x.f, y.f) : x.f[k] <= y.f[k]
    /\ \E k \in ZipIdx(x.f, y.f) : x.f[k] < y.f[k]

\* a plausible slip: the strict comparison on one objective is dropped
dominates_not_strict(x, y) ==
    IF x.g = NoneG
    THEN \A k \in ZipIdx(x.f, y.f) : x.f[k] <= y.f[k]
    ELSE \/ x_is_feasible_while_y_is_nor(x, y)
         \/ both_infeasible_but_x_is_better(x, y)
         \/ both_feasible_but_x_is_better(x, y)

dominates(x, y) ==
    IF x.g = NoneG
    THEN /\ \A k \in ZipIdx(x.f, y.f) : x.f[k] <= y.f[k]
         /\ \E k \in ZipIdx(x.f, y.f) : x.f[k] < y.f[k]
    ELSE \/ x_is_feasible_while_y_is_nor(x, y)
         \/ both_infeasible_but_x_is_better(x, y)
         \/ both_feasible_but_x_is_better(x, y)

(***************************************************************************)
(* The archive (AMOSA.py:305-344).                                         *)
(***************************************************************************)
\* list.remove(y): drops the first element equal to y
ListRemove(l, y) ==
    LET j == CHOOSE j \in 1..Len(l) : l[j] = y /\ \A k \in 1..(j - 1) : l[k] # y
    IN  [k \in 1..(Len(l) - 1) |-> IF k < j THEN l[k] ELSE l[k + 1]]

\* "for y in archive: if dominates(x, y): archive.remove(y)": the list
\* iterator holds the index i of the next element and reads the list as it
\* is at that moment, so a removal shifts the rest under the iterator
RECURSIVE RemoveLoop(_, _, _)
RemoveLoop(l, x, i) ==
    IF i > Len(l) THEN l
    ELSE IF dominates(x, l[i])
         THEN RemoveLoop(ListRemove(l, l[i]), x, i + 1)
         ELSE RemoveLoop(l, x, i + 1)

\* a plausible slip: the duplicate test of line 313 is left out
add_to_archive_no_dedup(l, x) ==
    IF Len(l) = 0 THEN <<x>>
    ELSE LET a == RemoveLoop(l, x, 1)
         IN  IF ~ \E j \in 1..Len(a) : dominates(a[j], x)
             THEN Append(a, x) ELSE a

add_to_archive(l, x) ==
    IF Len(l) = 0 THEN <<x>>
    ELSE LET a == RemoveLoop(l, x, 1)
         IN  IF ~ \E j \in 1..Len(a) : dominates(a[j], x) \/ is_the_same(x, a[j])
             THEN Append(a, x) ELSE a

RECURSIVE InsertAll(_, _, _)
\* "for x in archive: add_to_archive(nondominated_archive, x)"
InsertAll(acc, l, i) ==
    IF i > Len(l) THEN acc
    ELSE InsertAll(add_to_archive(acc, l[i]), l, i + 1)

remove_dominated(l) == InsertAll(<<>>, l, 1)

(***************************************************************************)
(* Spec: a sequence of add_to_archive calls on an archive that starts      *)
(* empty, with the evaluated points of one problem.  lastPoint and         *)
(* isRepeat record the previous call, lenBefore the length of the archive  *)
(* when the last call started.                                             *)
(***************************************************************************)
ArchiveIdle ==
    /\ archive = <<>>
    /\ lastPoint = NoPoint
    /\ lenBefore = 0
    /\ isRepeat = FALSE
    /\ nCalls = 0
    /\ aProblem = "Test"

RdIdle ==
    /\ rdInput = <<>>
    /\ rdOutput = <<>>
    /\ rdDone = FALSE

DomIdle ==
    /\ px = NoPoint
    /\ py = NoPoint
    /\ domXY = FALSE
    /\ domYX = FALSE
    /\ domXX = FALSE
    /\ cmpDone = FALSE

CacheIdle ==
    /\ cache = <<>>
    /\ total_calls = 0
    /\ cache_hits = 0
    /\ lastS = NoPoint
    /\ seenX = {}
    /\ nHits = 0
    /\ nMisses = 0
    /\ nEvaluate = 0

PersistIdle ==
    /\ pCache = <<>>
    /\ pDir = [exists |-> FALSE, files |-> <<>>]
    /\ pLimit = 0
    /\ pPc = "idle"
    /\ pRead = <<>>

TypedIdle ==
    /\ tcX = <<>>
    /\ tcKinds = <<>>
    /\ tcRaised = FALSE
    /\ tcEvaluated = 0
    /\ tcCalls = 0

ConfigIdle ==
    /\ cfgArgs = <<>>
    /\ cfgPc = "idle"

FirstIdle == ArchiveIdle /\ RdIdle /\ DomIdle /\ CacheIdle /\ PersistIdle

ClusteringIdle ==
    /\ kOp = "none"
    /\ kArchive = <<>>
    /\ kNum = 0
    /\ kMaxIt = 0
    /\ kConstrained = FALSE
    /\ kPc = "idle"
    /\ kOut = <<>>

SearchIdle ==
    /\ sOp = "none"
    /\ sN = 0
    /\ sUpper = <<>>
    /\ sProblem = [cache |-> <<>>, total_calls |-> 0, cache_hits |-> 0]
    /\ sStart = NoPoint
    /\ sX = NoPoint
    /\ sY = NoPoint
    /\ sD = 0
    /\ sUp = 0
    /\ sIt = 0
    /\ sMaxIt = 0
    /\ sStrength = 0
    /\ sSafety = 0
    /\ sRounds = 0
    /\ sPc = "idle"
    /\ sLastHit = FALSE

AmountIdle ==
    /\ daArchive = <<>>
    /\ daCurrent = NoPoint
    /\ daNew = NoPoint
    /\ daA = NoPoint
    /\ daB = NoPoint
    /\ daWarningsAreErrors = FALSE
    /\ daPc = "idle"
    /\ daValue = [num |-> 0, den |-> 1]

RunIdle ==
    /\ rConfig = <<>>
    /\ rConstrained = FALSE
    /\ rFiles = {}
    /\ rImprove = FALSE
    /\ rRemove = FALSE
    /\ rPath = "none"
    /\ rHillClimbed = FALSE
    /\ rPc = "idle"
    /\ rArchive = <<>>
    /\ rStartLen = 0
    /\ rTemperature = [num |-> 0, den |-> 1]
    /\ rSteps = 0
    /\ rTrials = 0
    /\ rEarly = FALSE

MergeIdle ==
    /\ mArchives = <<>>
    /\ mPc = "idle"
    /\ mOut = <<>>

LaterIdle ==
    /\ TypedIdle /\ ConfigIdle /\ ClusteringIdle /\ SearchIdle /\ AmountIdle
    /\ RunIdle /\ MergeIdle

Init ==
    /\ archive = <<>>
    /\ lastPoint = NoPoint
    /\ lenBefore = 0
    /\ isRepeat = FALSE
    /\ nCalls = 0
    /\ aProblem \in {"Test", "BNH"}
    /\ RdIdle /\ DomIdle /\ CacheIdle /\ PersistIdle /\ LaterIdle

AddToArchive(p) ==
    /\ nCalls < MaxInserts
    /\ archive' = add_to_archive(archive, p)
    /\ lastPoint' = p
    /\ lenBefore' = Len(archive)
    /\ isRepeat' = (lastPoint = p)
    /\ nCalls' = nCalls + 1
    /\ UNCHANGED <<aProblem, notArchiveVars>>

Next == \E p \in ProblemPoints(aProblem) : AddToArchive(p)

Spec == Init /\ [][Next]_vars

(***************************************************************************)
(* SpecRemoveDominated: remove_dominated applied to any list of points.    *)
(***************************************************************************)
RECURSIVE SeqsUpTo(_, _)
\* the sequences over S of length at most n
SeqsUpTo(S, n) ==
    IF n = 0 THEN {<<>>}
    ELSE LET shorter == SeqsUpTo(S, n - 1)
         IN  shorter \cup {Append(s, e) : s \in shorter, e \in S}

InitRemoveDominated ==
    /\ ArchiveIdle
    /\ DomIdle
    /\ CacheIdle
    /\ PersistIdle
    /\ LaterIdle
    /\ rdInput \in SeqsUpTo(TestPoints, MaxInput)
    /\ rdOutput = <<>>
    /\ rdDone = FALSE

RemoveDominated ==
    /\ ~ rdDone
    /\ rdOutput' = remove_dominated(rdInput)
    /\ rdDone' = TRUE
    /\ UNCHANGED <<rdInput, notRdVars>>

NextRemoveDominated == RemoveDominated

SpecRemoveDominated == InitRemoveDominated /\ [][NextRemoveDominated]_vars

(***************************************************************************)
(* SpecDominates: dominates applied to two evaluated points of one         *)
(* problem, unconstrained (g None) or with two constraints.                *)
(***************************************************************************)
ObjVals == {5 * i : i \in 0..MaxObjIdx}

\* a satisfied constraint with slack, a tight one, a violated one
ViolVals == {-1, 0, 1}

UnconstrainedPoints == {TestPoint(<<a, b>>) : a \in ObjVals, b \in ObjVals}

\* points of a problem with two objectives and two constraints
ConstrainedPoints ==
    {[x |-> <<a, b, c, d>>, f |-> <<a, b>>, g |-> <<c, d>>] :
        a \in ObjVals, b \in ObjVals, c \in ViolVals, d \in ViolVals}

InitDominates ==
    /\ ArchiveIdle
    /\ RdIdle
    /\ CacheIdle
    /\ PersistIdle
    /\ LaterIdle
    /\ \/ px \in UnconstrainedPoints /\ py \in UnconstrainedPoints
       \/ px \in ConstrainedPoints /\ py \in ConstrainedPoints
    /\ domXY = FALSE
    /\ domYX = FALSE
    /\ domXX = FALSE
    /\ cmpDone = FALSE

Compare ==
    /\ ~ cmpDone
    /\ domXY' = dominates(px, py)
    /\ domYX' = dominates(py, px)
    /\ domXX' = dominates(px, px)
    /\ cmpDone' = TRUE
    /\ UNCHANGED <<px, py, notDomVars>>

NextDominates == Compare

SpecDominates == InitDominates /\ [][NextDominates]_vars

(***************************************************************************)
(* The evaluation cache (AMOSA.py:129-148, 171-187).                       *)
(***************************************************************************)
DigitChar == <<"0", "1", "2", "3", "4", "5", "6", "7", "8", "9">>

RECURSIVE NatStr(_)
\* the decimal digits of n >= 0, a sequence of characters
NatStr(n) ==
    IF n < 10 THEN <<DigitChar[n + 1]>>
    ELSE NatStr(n \div 10) \o <<DigitChar[(n % 10) + 1]>>

\* str(i) of a Python int
IntStr(n) == IF n < 0 THEN <<"-">> \o NatStr(-n) ELSE NatStr(n)

RECURSIVE JoinStr(_, _)
\* ''.join([str(i) for i in x]) from index i on
JoinStr(x, i) == IF i > Len(x) THEN <<>> ELSE IntStr(x[i]) \o JoinStr(x, i + 1)

get_cache_key(s) == JoinStr(s.x, 1)

\* a problem is the record [cache, total_calls, cache_hits]
is_cached(pr, s) == get_cache_key(s) \in DOMAIN pr.cache

\* self.cache[key] = {"f": s["f"], "g": s["g"]}
add_to_cache(pr, s) ==
    LET key == get_cache_key(s)
    IN  [pr EXCEPT !.cache =
            [k \in (DOMAIN pr.cache) \cup {key} |->
                IF k = key THEN [f |-> s.f, g |-> s.g] ELSE pr.cache[k]]]

\* a plausible slip: the calls are counted on the miss branch only
get_objectives_count_misses(pr, s) ==
    IF is_cached(pr, s)
    THEN [problem |-> [pr EXCEPT !.cache_hits = @ + 1],
          s |-> [s EXCEPT !.f = pr.cache[get_cache_key(s)].f,
                          !.g = pr.cache[get_cache_key(s)].g],
          evaluated |-> 0]
    ELSE LET out == TestEvaluate(s.x)
             s1 == [s EXCEPT !.f = out.f, !.g = out.g]
         IN  [problem |-> add_to_cache([pr EXCEPT !.total_calls = @ + 1], s1),
              s |-> s1,
              evaluated |-> 1]

\* get_objectives(problem, s) for the INTEGER vectors of the test problem:
\* the problem and the point as the call leaves them, and the number of
\* calls of problem.evaluate it made
get_objectives(pr, s) ==
    LET pr1 == [pr EXCEPT !.total_calls = @ + 1]
    IN  IF is_cached(pr1, s)
        THEN [problem |-> [pr1 EXCEPT !.cache_hits = @ + 1],
              s |-> [s EXCEPT !.f = pr1.cache[get_cache_key(s)].f,
                              !.g = pr1.cache[get_cache_key(s)].g],
              evaluated |-> 0]
        ELSE LET out == TestEvaluate(s.x)
                 s1 == [s EXCEPT !.f = out.f, !.g = out.g]
             IN  [problem |-> add_to_cache(pr1, s1),
                  s |-> s1,
                  evaluated |-> 1]

(***************************************************************************)
(* SpecCache: a sequence of get_objectives calls on the test problem,      *)
(* whose cache starts empty and whose counters start at 0.                 *)
(***************************************************************************)
CacheCoords == (0..MaxSmall) \cup {10 + i : i \in 0..MaxSmall}

CacheVectors == {<<a, b>> : a \in CacheCoords, b \in CacheCoords}

\* a point before its evaluation (AMOSA.py:222): f zeroed, g None
FreshPoint(x) == [x |-> x, f |-> <<0, 0>>, g |-> NoneG]

InitCache ==
    ArchiveIdle /\ RdIdle /\ DomIdle /\ CacheIdle /\ PersistIdle /\ LaterIdle

GetObjectives(x) ==
    /\ nHits + nMisses < MaxEvals
    /\ LET pr == [cache |-> cache, total_calls |-> total_calls,
                  cache_hits |-> cache_hits]
           r == get_objectives(pr, FreshPoint(x))
           hit == get_cache_key(FreshPoint(x)) \in DOMAIN cache
       IN  /\ cache' = r.problem.cache
           /\ total_calls' = r.problem.total_calls
           /\ cache_hits' = r.problem.cache_hits
           /\ lastS' = r.s
           /\ nEvaluate' = nEvaluate + r.evaluated
           /\ seenX' = seenX \cup {x}
           /\ nHits' = IF hit THEN nHits + 1 ELSE nHits
           /\ nMisses' = IF hit THEN nMisses ELSE nMisses + 1
    /\ UNCHANGED notCacheVars

NextCache == \E x \in CacheVectors : GetObjectives(x)

SpecCache == InitCache /\ [][NextCache]_vars

(***************************************************************************)
(* Cache persistence (AMOSA.py:26-63).  Texts and file names are sequences *)
(* of characters.  A cache is a Python dict: the sequence of its entries   *)
(* [k, v] in insertion order, with distinct keys k; a loaded dict is the   *)
(* function from its keys to their values.                                 *)
(***************************************************************************)
\* sys.getsizeof of an ASCII str is 49 bytes plus its length
StrOverhead == 49
\* max_size_mb of MultiFileCacheHandle.__init__
DefaultMaxSizeMb == 10
\* 2 ** 20
MiB == 1048576

Quote == "\""

Chars_f == <<Quote, "f", Quote>>

Chars_g == <<Quote, "g", Quote>>

RECURSIVE DumpsInts(_, _)
\* ", ".join of the numbers of a list from index i on
DumpsInts(l, i) ==
    IF i > Len(l) THEN <<>>
    ELSE IntStr(l[i]) \o (IF i < Len(l) THEN <<",", " ">> ELSE <<>>) \o DumpsInts(l, i + 1)

\* json.dumps of a list of ints
DumpsList(l) == <<"[">> \o DumpsInts(l, 1) \o <<"]">>

\* json.dumps of s["g"]: None is written null
DumpsG(g) == IF g = NoneG THEN <<"n", "u", "l", "l">> ELSE DumpsList(g)

\* json.dumps of a cache value {"f": ..., "g": ...}
DumpsValue(v) ==
    <<"{">> \o Chars_f \o <<":", " ">> \o DumpsList(v.f) \o <<",", " ">>
            \o Chars_g \o <<":", " ">> \o DumpsG(v.g) \o <<"}">>

RECURSIVE DumpsEntries(_, _)
DumpsEntries(d, i) ==
    IF i > Len(d) THEN <<>>
    ELSE <<Quote>> \o d[i].k \o <<Quote, ":", " ">> \o DumpsValue(d[i].v)
            \o (IF i < Len(d) THEN <<",", " ">> ELSE <<>>) \o DumpsEntries(d, i + 1)

\* json.dumps of a cache
Dumps(d) == <<"{">> \o DumpsEntries(d, 1) \o <<"}">>

IsDigit(c) == c \in Range(DigitChar)

DigitVal(c) == CHOOSE n \in 0..9 : DigitChar[n + 1] = c

RECURSIVE SkipWs(_, _)
SkipWs(t, i) == IF i <= Len(t) /\ t[i] = " " THEN SkipWs(t, i + 1) ELSE i

RECURSIVE ParseNat(_, _, _)
ParseNat(t, i, acc) ==
    IF i <= Len(t) /\ IsDigit(t[i])
    THEN ParseNat(t, i + 1, 10 * acc + DigitVal(t[i]))
    ELSE [val |-> acc, pos |-> i]

ParseInt(t, i) ==
    IF t[i] = "-"
    THEN LET r == ParseNat(t, i + 1, 0) IN [val |-> 0 - r.val, pos |-> r.pos]
    ELSE ParseNat(t, i, 0)

RECURSIVE StringEnd(_, _)
\* the index of the quote that closes the string whose text starts at i
StringEnd(t, i) == IF t[i] = Quote THEN i ELSE StringEnd(t, i + 1)

\* a string that starts with the quote at i
ParseString(t, i) ==
    LET e == StringEnd(t, i + 1)
    IN  [val |-> SubSeq(t, i + 1, e - 1), pos |-> e + 1]

\* d[k] = v on a dict
DictPut(d, k, v) == [x \in (DOMAIN d) \cup {k} |-> IF x = k THEN v ELSE d[x]]

RECURSIVE ParseValue(_, _)
RECURSIVE ParseArray(_, _, _)
RECURSIVE ParseObject(_, _, _)
\* json.loads of the value at i: an object is a dict, an array a list,
\* null is None; val is the value and pos the index after it
ParseValue(t, i) ==
    LET j == SkipWs(t, i)
    IN  CASE t[j] = "{" -> ParseObject(t, SkipWs(t, j + 1), <<>>)
          [] t[j] = "[" -> ParseArray(t, SkipWs(t, j + 1), <<>>)
          [] t[j] = "n" -> [val |-> NoneG, pos |-> j + 4]
          [] OTHER -> ParseInt(t, j)

ParseArray(t, i, acc) ==
    IF t[i] = "]" THEN [val |-> acc, pos |-> i + 1]
    ELSE LET r == ParseValue(t, i)
             j == SkipWs(t, r.pos)
         IN  IF t[j] = ","
             THEN ParseArray(t, SkipWs(t, j + 1), Append(acc, r.val))
             ELSE [val |-> Append(acc, r.val), pos |-> j + 1]

ParseObject(t, i, acc) ==
    IF t[i] = "}" THEN [val |-> acc, pos |-> i + 1]
    ELSE LET k == ParseString(t, i)
             c == SkipWs(t, k.pos)
             r == ParseValue(t, c + 1)
             j == SkipWs(t, r.pos)
             acc2 == DictPut(acc, k.val, r.val)
         IN  IF t[j] = ","
             THEN ParseObject(t, SkipWs(t, j + 1), acc2)
             ELSE [val |-> acc2, pos |-> j + 1]

\* json.load of a shard: the dict of its keys to the values {"f", "g"}
Loads(t) ==
    LET o == ParseValue(t, 1).val
    IN  [k \in DOMAIN o |-> [f |-> o[k][<<"f">>], g |-> o[k][<<"g">>]]]

EndsWith(name, suffix) ==
    /\ Len(name) >= Len(suffix)
    /\ SubSeq(name, Len(name) - Len(suffix) + 1, Len(name)) = suffix

DotJson == <<".", "j", "s", "o", "n">>

RECURSIVE ZeroPad(_, _)
ZeroPad(digits, width) ==
    IF Len(digits) >= width THEN digits ELSE ZeroPad(<<"0">> \o digits, width)

\* f"{count:09d}.json"
ShardName(count) == ZeroPad(NatStr(count), 9) \o DotJson

CeilDiv(a, b) == (a + b - 1) \div b

\* chunks(data, max_entries): chunk number c (from 0) of the dict
Chunk(d, maxEntries, c) ==
    SubSeq(d, c * maxEntries + 1, Min(Len(d), (c + 1) * maxEntries))

\* write(cache) on the directory dir with max_size_mb * 2 ** 20 = limit, for
\* a cache with at least one entry: the directory as the call leaves it,
\* and whether it raised ZeroDivisionError (line 54) before writing a shard
write(dir, d, limit) ==
    LET kept == IF dir.exists
                THEN [f \in {n \in DOMAIN dir.files : ~ EndsWith(n, DotJson)} |->
                         dir.files[f]]
                ELSE <<>>
        total_entries == Len(d)
        total_size == StrOverhead + Len(Dumps(d))
        avg_entry_size == CeilDiv(total_size, total_entries)
        max_entries_per_file == limit \div avg_entry_size
    IN  IF max_entries_per_file = 0
        THEN [raised |-> TRUE, dir |-> [exists |-> TRUE, files |-> kept]]
        ELSE LET splits == CeilDiv(total_entries, max_entries_per_file)
                 nChunks == CeilDiv(Len(d), max_entries_per_file)
                 n == Min(nChunks, splits)
                 names == {ShardName(c) : c \in 0..(n - 1)}
                 shard(name) ==
                     Dumps(Chunk(d, max_entries_per_file,
                                 CHOOSE c \in 0..(n - 1) : ShardName(c) = name))
             IN  [raised |-> FALSE,
                  dir |-> [exists |-> TRUE,
                           files |-> [f \in (DOMAIN kept) \cup names |->
                                         IF f \in names THEN shard(f) ELSE kept[f]]]]

\* {**cache, **tmp}
DictMerge(a, b) ==
    [k \in (DOMAIN a) \cup (DOMAIN b) |-> IF k \in DOMAIN b THEN b[k] ELSE a[k]]

RECURSIVE ReadLoop(_, _, _, _)
\* the loop of read over os.listdir's order of the files
ReadLoop(files, order, i, acc) ==
    IF i > Len(order) THEN acc
    ELSE IF EndsWith(order[i], DotJson)
         THEN ReadLoop(files, order, i + 1, DictMerge(acc, Loads(files[order[i]])))
         ELSE ReadLoop(files, order, i + 1, acc)

RECURSIVE Orders(_)
\* the orders os.listdir may list a set of file names in
Orders(S) ==
    IF S = {} THEN {<<>>}
    ELSE UNION {{<<n>> \o o : o \in Orders(S \ {n})} : n \in S}

\* read() when os.listdir lists the directory in the given order
read(dir, order) ==
    IF dir.exists THEN ReadLoop(dir.files, order, 1, <<>>) ELSE <<>>

(***************************************************************************)
(* SpecPersist: write(cache) and then read() of one handle, for a cache    *)
(* with at least one entry, on a directory that is absent, empty, or holds *)
(* the shards of an earlier cache and another file.                        *)
(***************************************************************************)
\* cache entries: two of the test problem, one of a problem with constraints
CacheEntries ==
    { [k |-> get_cache_key(TestPoint(<<1, 10>>)), v |-> TestEvaluate(<<1, 10>>)],
      [k |-> get_cache_key(TestPoint(<<1, 2>>)), v |-> TestEvaluate(<<1, 2>>)],
      [k |-> get_cache_key(TestPoint(<<0, 3>>)), v |-> [f |-> <<0, 7>>, g |-> <<-1, 4>>]] }

\* the dicts over CacheEntries with at least one entry, in every order
NonemptyCaches ==
    {d \in SeqsUpTo(CacheEntries, Cardinality(CacheEntries)) :
        /\ Len(d) >= 1
        /\ \A i, j \in DOMAIN d : i # j => d[i].k # d[j].k}

\* max_size_mb * 2 ** 20 of the handle: the default, and small limits
ShardByteLimits == {40, 64, 128, DefaultMaxSizeMb * MiB}

\* an earlier cache, whose value for the key "110" differs
StaleShard ==
    Dumps(<<[k |-> get_cache_key(TestPoint(<<1, 10>>)), v |-> TestEvaluate(<<9, 9>>)],
            [k |-> get_cache_key(TestPoint(<<5, 5>>)), v |-> TestEvaluate(<<5, 5>>)]>>)

PriorDirs ==
    { [exists |-> FALSE, files |-> <<>>],
      [exists |-> TRUE, files |-> <<>>],
      [exists |-> TRUE,
       files |-> (ShardName(0) :> StaleShard) @@ (ShardName(5) :> StaleShard)
                    @@ (<<"a", ".", "t", "x", "t">> :> <<"x">>)] }

InitPersist ==
    /\ ArchiveIdle /\ RdIdle /\ DomIdle /\ CacheIdle /\ LaterIdle
    /\ pCache \in NonemptyCaches
    /\ pDir \in PriorDirs
    /\ pLimit \in ShardByteLimits
    /\ pPc = "start"
    /\ pRead = <<>>

Write ==
    /\ pPc = "start"
    /\ LET r == write(pDir, pCache, pLimit)
       IN  /\ pDir' = r.dir
           /\ pPc' = IF r.raised THEN "raised" ELSE "written"
    /\ UNCHANGED <<pCache, pLimit, pRead, notPersistVars>>

Read ==
    /\ pPc = "written"
    /\ \E order \in Orders(DOMAIN pDir.files) : pRead' = read(pDir, order)
    /\ pPc' = "read"
    /\ UNCHANGED <<pCache, pDir, pLimit, notPersistVars>>

NextPersist == Write \/ Read

SpecPersist == InitPersist /\ [][NextPersist]_vars

(***************************************************************************)
(* SpecTyped: get_objectives called on the test problem with vectors whose *)
(* components carry a runtime type, "int" or "float", and a value at, just *)
(* below or just above the declared bounds (AMOSA.py:171-187).             *)
(***************************************************************************)
\* the declaration of the test problem (test.py:10-13)
TestLowerBound == 0

TestUpperBound == 100

TestTypes == <<"INTEGER", "INTEGER">>

lower_bound == <<TestLowerBound, TestLowerBound>>

upper_bound == <<TestUpperBound, TestUpperBound>>

\* "for i, t in zip(s["x"], problem.types): assert isinstance(i, int if t ==
\* INTEGER else float)": TRUE when no assertion fails
type_assertion(kinds, types) ==
    \A k \in ZipIdx(kinds, types) :
        kinds[k] = (IF types[k] = "INTEGER" THEN "int" ELSE "float")

TypedCoords ==
    {TestLowerBound - 1, TestLowerBound, TestUpperBound, TestUpperBound + 1}

TypedVectors == {<<a, b>> : a \in TypedCoords, b \in TypedCoords}

RuntimeKinds == {<<j, k>> : j \in {"int", "float"}, k \in {"int", "float"}}

InitTyped ==
    /\ ArchiveIdle /\ RdIdle /\ DomIdle /\ CacheIdle /\ PersistIdle
    /\ TypedIdle /\ ConfigIdle /\ ClusteringIdle /\ SearchIdle /\ AmountIdle /\ RunIdle
    /\ MergeIdle

\* one call: the assertions of lines 173-174 come first, and a failed one
\* leaves the problem as it was
GetObjectivesTyped(x, kinds) ==
    /\ tcCalls < MaxTypedCalls
    /\ tcCalls' = tcCalls + 1
    /\ tcX' = x
    /\ tcKinds' = kinds
    /\ IF ~ type_assertion(kinds, TestTypes)
       THEN /\ tcRaised' = TRUE
            /\ tcEvaluated' = 0
            /\ UNCHANGED cacheVars
       ELSE LET pr == [cache |-> cache, total_calls |-> total_calls,
                       cache_hits |-> cache_hits]
                r == get_objectives(pr, FreshPoint(x))
                hit == get_cache_key(FreshPoint(x)) \in DOMAIN cache
            IN  /\ tcRaised' = FALSE
                /\ tcEvaluated' = r.evaluated
                /\ cache' = r.problem.cache
                /\ total_calls' = r.problem.total_calls
                /\ cache_hits' = r.problem.cache_hits
                /\ lastS' = r.s
                /\ nEvaluate' = nEvaluate + r.evaluated
                /\ seenX' = seenX \cup {x}
                /\ nHits' = IF hit THEN nHits + 1 ELSE nHits
                /\ nMisses' = IF hit THEN nMisses ELSE nMisses + 1
    /\ UNCHANGED notTypedVars

NextTyped ==
    \E x \in TypedVectors : \E kinds \in RuntimeKinds : GetObjectivesTyped(x, kinds)

SpecTyped == InitTyped /\ [][NextTyped]_vars

(***************************************************************************)
(* SpecConfig: AMOSAConfig.__init__ (AMOSA.py:65-101) called with numbers. *)
(* Python takes any number for any argument, so the arguments are held in  *)
(* halves: Unit is the number 1, and 1 stands for 0.5.                     *)
(***************************************************************************)
Unit == 2

\* the assertions of lines 81-89: TRUE when none fails
AMOSAConfig_asserts_cooling_up_to_one(c) ==
    /\ c.archive_soft_limit >= c.archive_hard_limit /\ c.archive_hard_limit > 0
    /\ c.archive_gamma > 0
    /\ c.clustering_max_iterations > 0
    /\ c.hill_climbing_iterations >= 0
    /\ c.initial_temperature > c.final_temperature /\ c.final_temperature > 0
    /\ 0 < c.cooling_factor /\ c.cooling_factor <= Unit
    /\ c.annealing_iterations > 0
    /\ c.annealing_strength >= Unit
    /\ c.early_termination_window >= 0

AMOSAConfig_asserts(c) ==
    /\ c.archive_soft_limit >= c.archive_hard_limit /\ c.archive_hard_limit > 0
    /\ c.archive_gamma > 0
    /\ c.clustering_max_iterations > 0
    /\ c.hill_climbing_iterations >= 0
    /\ c.initial_temperature > c.final_temperature /\ c.final_temperature > 0
    /\ 0 < c.cooling_factor /\ c.cooling_factor < Unit
    /\ c.annealing_iterations > 0
    /\ c.annealing_strength >= Unit
    /\ c.early_termination_window >= 0

\* arguments around the limits the assertions draw
ConfigArgs ==
    [archive_hard_limit : {0, Unit, 2 * Unit},
     archive_soft_limit : {Unit, 2 * Unit},
     archive_gamma : {0, 1, Unit},
     clustering_max_iterations : {0, Unit},
     hill_climbing_iterations : {-Unit, 0},
     initial_temperature : {1, Unit},
     final_temperature : {0, 1},
     cooling_factor : {0, 1, Unit},
     annealing_iterations : {0, 1, Unit},
     annealing_strength : {1, Unit},
     early_termination_window : {-Unit, 0}]

InitConfig ==
    /\ FirstIdle /\ TypedIdle /\ ClusteringIdle /\ SearchIdle /\ AmountIdle /\ RunIdle
    /\ MergeIdle
    /\ cfgArgs \in ConfigArgs
    /\ cfgPc = "start"

Construct ==
    /\ cfgPc = "start"
    /\ cfgPc' = IF AMOSAConfig_asserts(cfgArgs) THEN "constructed" ELSE "raised"
    /\ UNCHANGED <<cfgArgs, notCfgVars>>

NextConfig == Construct

SpecConfig == InitConfig /\ [][NextConfig]_vars

(***************************************************************************)
(* Clustering (AMOSA.py:346-415).  The random draws of kmeans_clustering   *)
(* make it a relation: the operators give the set of the outcomes a call   *)
(* can have, each [raised, out].                                           *)
(***************************************************************************)
\* the whole r with r * r = n: the distances of the points clustered here
\* are whole numbers
ISqrt(n) == CHOOSE r \in 0..n : r * r = n

RECURSIVE SumSq(_, _, _)
SumSq(a, b, i) ==
    IF i > Min(Len(a), Len(b)) THEN 0
    ELSE (a[i] - b[i]) * (a[i] - b[i]) + SumSq(a, b, i + 1)

\* np.linalg.norm(np.array(p["f"]) - np.array(q["f"]))
Norm(p, q) == ISqrt(SumSq(p.f, q.f, 1))

RECURSIVE SumDist(_, _, _)
\* np.nansum([norm(c["f"] - p["f"]) for c in cs]) from index i on
SumDist(cs, p, i) ==
    IF i > Len(cs) THEN 0 ELSE Norm(cs[i], p) + SumDist(cs, p, i + 1)

RECURSIVE SumOthers(_, _, _)
\* the sum line 362 takes for the point p of input_set: the distances to
\* the members with another decision vector, the others being NaN
SumOthers(input_set, p, j) ==
    IF j > Len(input_set) THEN 0
    ELSE (IF input_set[j].x # p.x THEN Norm(p, input_set[j]) ELSE 0)
            + SumOthers(input_set, p, j + 1)

\* np.argmin and np.nanargmin: the first index of the least value
ArgMin(d) == CHOOSE i \in DOMAIN d : \A j \in DOMAIN d : d[i] < d[j] \/ (d[i] = d[j] /\ i <= j)

centroid_of_set(input_set) ==
    input_set[ArgMin([i \in DOMAIN input_set |-> SumOthers(input_set, input_set[i], 1)])]

RECURSIVE SumSeq(_, _)
SumSeq(d, i) == IF i > Len(d) THEN 0 ELSE d[i] + SumSeq(d, i + 1)

RECURSIVE SelectSeq2(_, _, _, _)
\* [x for x in archive if argmin of its distances to the centroids is c]
SelectSeq2(pts, centroids, c, i) ==
    IF i > Len(pts) THEN <<>>
    ELSE LET x == pts[i]
             dists == [j \in DOMAIN centroids |-> Norm(x, centroids[j])]
         IN  (IF ArgMin(dists) = c THEN <<x>> ELSE <<>>)
                \o SelectSeq2(pts, centroids, c, i + 1)

\* one round of lines 396-404
KmeansRound(pts, centroids) ==
    [c \in DOMAIN centroids |->
        LET cluster == SelectSeq2(pts, centroids, c, 1)
        IN  IF Len(cluster) # 0 THEN centroid_of_set(cluster) ELSE centroids[c]]

RECURSIVE KmeansRounds(_, _, _)
\* "for n in range(max_iterations)": a round that leaves the centroids as
\* they are is followed by rounds that do the same
KmeansRounds(pts, centroids, n) ==
    IF n = 0 THEN centroids
    ELSE LET next == KmeansRound(pts, centroids)
         IN  IF next = centroids THEN centroids
             ELSE KmeansRounds(pts, next, n - 1)

RECURSIVE Seed(_, _, _)
\* lines 375-389, n centroids still to draw: np.random.choice draws an
\* index whose normalized distance is not 0; when all the distances are 0
\* the division of line 379 is 0.0 / 0.0, which raises RuntimeWarning under
\* warnings.filterwarnings("error") (raised again by line 388 in the
\* handler) and otherwise gives NaN, for which np.random.choice raises
\* ValueError
Seed(pts, centroids, n) ==
    IF n = 0 THEN {[raised |-> FALSE, out |-> centroids]}
    ELSE LET dists == [i \in DOMAIN pts |-> SumDist(centroids, pts[i], 1)]
         IN  IF SumSeq(dists, 1) = 0
             THEN {[raised |-> TRUE, out |-> <<>>]}
             ELSE UNION {Seed(pts, Append(centroids, pts[i]), n - 1) :
                            i \in {j \in DOMAIN pts : dists[j] > 0}}

kmeans_clustering(pts, num_of_clusters, max_iterations) ==
    IF max_iterations <= 0 THEN {[raised |-> TRUE, out |-> <<>>]}
    ELSE IF 1 < num_of_clusters /\ num_of_clusters < Len(pts)
    THEN {IF s.raised THEN s
          ELSE [raised |-> FALSE, out |-> KmeansRounds(pts, s.out, max_iterations)] :
             s \in UNION {Seed(pts, <<pts[i]>>, num_of_clusters - 1) :
                            i \in DOMAIN pts}}
    ELSE IF num_of_clusters = 1
    THEN {[raised |-> FALSE, out |-> <<centroid_of_set(pts)>>]}
    ELSE {[raised |-> FALSE, out |-> pts]}

\* [s for s in archive if all([g <= 0 for g in s["g"]])]
FeasibleOf(pts) == SelectSeq(pts, LAMBDA s : \A i \in DOMAIN s.g : s.g[i] <= 0)

\* [s for s in archive if any([g > 0 for g in s["g"]])]
UnfeasibleOf(pts) == SelectSeq(pts, LAMBDA s : \E i \in DOMAIN s.g : s.g[i] > 0)

\* a plausible slip: the number of feasible points is not subtracted
clustering_no_subtraction(pts, constrained, hard_limit, max_iterations) ==
    IF constrained
    THEN LET feasible == FeasibleOf(pts)
             unfeasible == UnfeasibleOf(pts)
         IN  IF Len(feasible) > hard_limit
             THEN kmeans_clustering(feasible, hard_limit, max_iterations)
             ELSE IF Len(feasible) < hard_limit /\ Len(unfeasible) # 0
             THEN {IF r.raised THEN r
                   ELSE [raised |-> FALSE, out |-> feasible \o r.out] :
                      r \in kmeans_clustering(unfeasible, hard_limit, max_iterations)}
             ELSE {[raised |-> FALSE, out |-> feasible]}
    ELSE kmeans_clustering(pts, hard_limit, max_iterations)

\* clustering(archive, problem, hard_limit, max_iterations, print_allowed),
\* constrained being problem.num_of_constraints > 0
clustering(pts, constrained, hard_limit, max_iterations) ==
    IF constrained
    THEN LET feasible == FeasibleOf(pts)
             unfeasible == UnfeasibleOf(pts)
         IN  IF Len(feasible) > hard_limit
             THEN kmeans_clustering(feasible, hard_limit, max_iterations)
             ELSE IF Len(feasible) < hard_limit /\ Len(unfeasible) # 0
             THEN {IF r.raised THEN r
                   ELSE [raised |-> FALSE, out |-> feasible \o r.out] :
                      r \in kmeans_clustering(unfeasible, hard_limit - Len(feasible),
                                              max_iterations)}
             ELSE {[raised |-> FALSE, out |-> feasible]}
    ELSE kmeans_clustering(pts, hard_limit, max_iterations)

(***************************************************************************)
(* SpecClustering: one call of kmeans_clustering or of clustering on a     *)
(* list of evaluated points with different decision vectors.  The          *)
(* objective vectors lie on a line, 5 apart, and do not dominate one       *)
(* another; two decision vectors share each objective vector, and four     *)
(* the first one, as the permutations of x[1:] do in problems/ZDT1.py.     *)
(* With constraints, g is <<x[2]>>: the points with x[2] = 0 are the       *)
(* feasible ones.  kmeans_clustering does not read g.                      *)
(***************************************************************************)
DefaultClusteringMaxIterations == 300

LinePoint(t, v, constrained) ==
    [x |-> <<t, v>>,
     f |-> <<3 * t, 4 * (MaxLine - t)>>,
     g |-> IF constrained THEN <<v>> ELSE NoneG]

LinePoints(constrained) ==
    {LinePoint(t, v, constrained) : t \in 0..MaxLine, v \in 0..1}
        \cup {LinePoint(0, 2, constrained), LinePoint(0, 3, constrained)}

\* the non-empty lists of at most MaxArchive points of S, no point twice
ArchivesOf(S) ==
    {l \in SeqsUpTo(S, MaxArchive) :
        /\ Len(l) >= 1
        /\ \A i, j \in DOMAIN l : i # j => l[i] # l[j]}

\* the lists of MaxArchive + 1 points of S in the order of their decision
\* vectors: the archives on which kmeans_clustering draws three centroids
\* or more
LongArchivesOf(S) ==
    {l \in SeqsUpTo(S, MaxArchive + 1) :
        /\ Len(l) = MaxArchive + 1
        /\ \A i \in 1..(Len(l) - 1) :
               \/ l[i].x[1] < l[i + 1].x[1]
               \/ l[i].x[1] = l[i + 1].x[1] /\ l[i].x[2] < l[i + 1].x[2]}

InitClustering ==
    /\ FirstIdle /\ TypedIdle /\ ConfigIdle /\ SearchIdle /\ AmountIdle /\ RunIdle
    /\ MergeIdle
    /\ kOp \in {"kmeans_clustering", "clustering"}
    /\ kConstrained \in (IF kOp = "clustering" THEN BOOLEAN ELSE {FALSE})
    /\ kArchive \in ArchivesOf(LinePoints(kConstrained))
                       \cup (IF kOp = "kmeans_clustering"
                             THEN LongArchivesOf(LinePoints(FALSE)) ELSE {})
    /\ kNum \in 1..(IF Len(kArchive) > MaxArchive THEN MaxClusters + 1
                    ELSE MaxClusters)
    /\ kMaxIt = DefaultClusteringMaxIterations
    /\ kPc = "start"
    /\ kOut = <<>>

KmeansClustering ==
    /\ kPc = "start"
    /\ kOp = "kmeans_clustering"
    /\ \E r \in kmeans_clustering(kArchive, kNum, kMaxIt) :
          /\ kPc' = IF r.raised THEN "raised" ELSE "returned"
          /\ kOut' = r.out
    /\ UNCHANGED <<kOp, kArchive, kNum, kMaxIt, kConstrained, notKVars>>

Clustering ==
    /\ kPc = "start"
    /\ kOp = "clustering"
    /\ \E r \in clustering(kArchive, kConstrained, kNum, kMaxIt) :
          /\ kPc' = IF r.raised THEN "raised" ELSE "returned"
          /\ kOut' = r.out
    /\ UNCHANGED <<kOp, kArchive, kNum, kMaxIt, kConstrained, notKVars>>

NextClustering == KmeansClustering \/ Clustering

SpecClustering == InitClustering /\ [][NextClustering]_vars

(***************************************************************************)
(* The moves of the search (AMOSA.py:220-241, 260-303) on the problem of   *)
(* test.py declared with n INTEGER variables, variable i with the bounds   *)
(* [0, upper_bound[i]] and upper_bound[i] being 0 or MaxUpper: evaluate    *)
(* sets out["f"] = x.                                                      *)
(***************************************************************************)
\* problem.max_attempt = problem.num_of_variables
max_attempt(n) == n

\* a plausible slip: the loop is left one round later
repeat_while_cached_once_more(safety_exit, pr, s) ==
    safety_exit >= -1 /\ is_cached(pr, s)

\* "while safety_exit >= 0 and problem.is_cached(z)", lines 232 and 288
repeat_while_cached(safety_exit, pr, s) ==
    safety_exit >= 0 /\ is_cached(pr, s)

\* "lb if lb == ub else random.randrange(lb, ub)": the values it can give
DrawnValues(lb, ub) == IF lb = ub THEN {lb} ELSE lb..(ub - 1)

\* one round of the loop of random_perturbation, lines 234-239: the points
\* z can become.  random.sample takes 1..min(strength, n) different indexes
PerturbationRound(z, n, ub, strength) ==
    {[z EXCEPT !.x = [i \in 1..n |-> IF i \in I THEN v[i] ELSE z.x[i]]] :
        I \in {J \in SUBSET (1..n) : 1 <= Cardinality(J)
                                     /\ Cardinality(J) <= Min(strength, n)},
        v \in {w \in [1..n -> 0..MaxUpper] :
                  \A i \in 1..n : w[i] \in DrawnValues(0, ub[i])}}

\* the decision vectors random_point can draw, line 222
RandomVectors(n, ub) ==
    {w \in [1..n -> 0..MaxUpper] :
        \A i \in 1..n : w[i] \in DrawnValues(0, ub[i])}

\* a plausible slip: the step up is drawn from a range one too long
DrawnSteps_one_past_upper(up, lower, upper) ==
    IF up = -1 THEN lower..(-1) ELSE 1..(upper + 1)

\* the steps line 295 can draw, the draws of 0 being repeated by line 296
DrawnSteps(up, lower, upper) ==
    IF up = -1 THEN lower..(-1) ELSE 1..upper

\* the points of the problem with n variables
SearchPoints(n, ub) ==
    {TestPoint(v) : v \in {w \in [1..n -> 0..MaxUpper] :
                              \A i \in 1..n : w[i] <= ub[i]}}

\* the cache that holds the points of S
CacheOf(S) ==
    [k \in {get_cache_key(p) : p \in S} |->
        LET p == CHOOSE q \in S : get_cache_key(q) = k
        IN  [f |-> p.f, g |-> p.g]]

(***************************************************************************)
(* SpecSearch: one call of hill_climbing(problem, x, max_iterations), of   *)
(* random_perturbation(problem, x, strength) or of random_point(problem),  *)
(* x an evaluated point, the cache holding x alone or every point of the   *)
(* problem.                                                                *)
(***************************************************************************)
InitSearch ==
    /\ FirstIdle /\ TypedIdle /\ ConfigIdle /\ ClusteringIdle /\ AmountIdle /\ RunIdle
    /\ MergeIdle
    /\ sOp \in {"hill_climbing", "random_perturbation", "random_point"}
    /\ sN \in 1..MaxVariables
    /\ sUpper \in [1..sN -> {0, MaxUpper}]
    /\ sStart \in SearchPoints(sN, sUpper)
    /\ sX = sStart
    /\ sY = NoPoint
    /\ \E S \in {{sStart}, SearchPoints(sN, sUpper)} :
          sProblem = [cache |-> CacheOf(S), total_calls |-> 0, cache_hits |-> 0]
    /\ sMaxIt \in (IF sOp = "hill_climbing" THEN 0..MaxHillIterations ELSE {0})
    /\ sStrength \in (IF sOp = "random_perturbation" THEN 1..MaxVariables ELSE {0})
    /\ sD = 0
    /\ sUp = 0
    /\ sIt = 0
    /\ sSafety = 0
    /\ sRounds = 0
    /\ sPc = "start"
    /\ sLastHit = FALSE

\* line 262: hill_climbing_direction(problem)
HillClimbingStart ==
    /\ sOp = "hill_climbing" /\ sPc = "start"
    /\ sD' \in 1..sN
    /\ sUp' \in {-1, 1}
    /\ sPc' = "loop"
    /\ UNCHANGED <<sOp, sN, sUpper, sProblem, sStart, sX, sY, sIt, sMaxIt, sStrength,
                   sSafety, sRounds, sLastHit, notSVars>>

\* lines 263-264 and 287, or line 270 after the last round
HillClimbingLoop ==
    /\ sPc = "loop"
    /\ IF sIt < sMaxIt
       THEN /\ sIt' = sIt + 1
            /\ sY' = sX
            /\ sSafety' = max_attempt(sN)
            /\ sRounds' = 0
            /\ sPc' = "step"
       ELSE /\ sPc' = "returned"
            /\ UNCHANGED <<sIt, sY, sSafety, sRounds>>
    /\ UNCHANGED <<sOp, sN, sUpper, sProblem, sStart, sX, sD, sUp, sMaxIt, sStrength,
                   sLastHit, notSVars>>

\* one round of the loop of hill_climbing_adaptive_step, lines 288-302
AdaptiveStepRound ==
    /\ sPc = "step"
    /\ repeat_while_cached(sSafety, sProblem, sY)
    /\ sSafety' = sSafety - 1
    /\ sRounds' = sRounds + 1
    /\ LET lower == 0 - sY.x[sD]
           upper == sUpper[sD] - sY.x[sD]
       IN  IF (sUp = -1 /\ lower = 0) \/ (sUp = 1 /\ upper = 0)
           THEN /\ sPc' = "compare"
                /\ UNCHANGED sY
           ELSE /\ \E step \in DrawnSteps(sUp, lower, upper) :
                      sY' = [sY EXCEPT !.x[sD] = @ + step]
                /\ UNCHANGED sPc
    /\ UNCHANGED <<sOp, sN, sUpper, sProblem, sStart, sX, sD, sUp, sIt, sMaxIt,
                   sStrength, sLastHit, notSVars>>

\* line 303, reached when the loop of line 288 ends
AdaptiveStepEvaluate ==
    /\ sPc = "step"
    /\ ~ repeat_while_cached(sSafety, sProblem, sY)
    /\ LET r == get_objectives(sProblem, sY)
       IN  /\ sProblem' = r.problem
           /\ sY' = r.s
           /\ sLastHit' = is_cached(sProblem, sY)
    /\ sPc' = "compare"
    /\ UNCHANGED <<sOp, sN, sUpper, sStart, sX, sD, sUp, sIt, sMaxIt, sStrength,
                   sSafety, sRounds, notSVars>>

\* lines 266-269, up to the first draw of line 277
HillClimbingCompare ==
    /\ sPc = "compare"
    /\ IF dominates(sY, sX) /\ not_the_same(sY, sX)
       THEN /\ sX' = sY
            /\ sPc' = "loop"
            /\ UNCHANGED sUp
       ELSE /\ sUp' \in {-1, 1}
            /\ sPc' = "direction"
            /\ UNCHANGED sX
    /\ UNCHANGED <<sOp, sN, sUpper, sProblem, sStart, sY, sD, sIt, sMaxIt, sStrength,
                   sSafety, sRounds, sLastHit, notSVars>>

\* lines 278-281 of hill_climbing_direction(problem, c_d), c_d being sD: one
\* draw of d, which ends the loop of line 279 when it differs from c_d
HillClimbingDirection ==
    /\ sPc = "direction"
    /\ \E d \in 1..sN :
          IF d # sD
          THEN /\ sD' = d
               /\ sPc' = "loop"
          ELSE UNCHANGED <<sD, sPc>>
    /\ UNCHANGED <<sOp, sN, sUpper, sProblem, sStart, sX, sY, sUp, sIt, sMaxIt,
                   sStrength, sSafety, sRounds, sLastHit, notSVars>>

\* lines 228-231
RandomPerturbationStart ==
    /\ sOp = "random_perturbation" /\ sPc = "start"
    /\ sY' = sX
    /\ sSafety' = max_attempt(sN)
    /\ sRounds' = 0
    /\ sPc' = "perturb"
    /\ UNCHANGED <<sOp, sN, sUpper, sProblem, sStart, sX, sD, sUp, sIt, sMaxIt,
                   sStrength, sLastHit, notSVars>>

\* one round of the loop of random_perturbation, lines 232-239
RandomPerturbationRound ==
    /\ sPc = "perturb"
    /\ repeat_while_cached(sSafety, sProblem, sY)
    /\ sSafety' = sSafety - 1
    /\ sRounds' = sRounds + 1
    /\ sY' \in PerturbationRound(sY, sN, sUpper, sStrength)
    /\ UNCHANGED <<sOp, sN, sUpper, sProblem, sStart, sX, sD, sUp, sIt, sMaxIt,
                   sStrength, sPc, sLastHit, notSVars>>

\* lines 240-241
RandomPerturbationEvaluate ==
    /\ sPc = "perturb"
    /\ ~ repeat_while_cached(sSafety, sProblem, sY)
    /\ LET r == get_objectives(sProblem, sY)
       IN  /\ sProblem' = r.problem
           /\ sY' = r.s
           /\ sLastHit' = is_cached(sProblem, sY)
    /\ sPc' = "returned"
    /\ UNCHANGED <<sOp, sN, sUpper, sStart, sX, sD, sUp, sIt, sMaxIt, sStrength,
                   sSafety, sRounds, notSVars>>

\* lines 222-224: the vector is drawn and handed to get_objectives
RandomPoint ==
    /\ sOp = "random_point" /\ sPc = "start"
    /\ \E v \in RandomVectors(sN, sUpper) :
          LET x == [x |-> v, f |-> [i \in 1..sN |-> 0], g |-> NoneG]
              r == get_objectives(sProblem, x)
          IN  /\ sProblem' = r.problem
              /\ sY' = r.s
              /\ sLastHit' = is_cached(sProblem, x)
    /\ sPc' = "returned"
    /\ UNCHANGED <<sOp, sN, sUpper, sStart, sX, sD, sUp, sIt, sMaxIt, sStrength,
                   sSafety, sRounds, notSVars>>

NextSearch ==
    \/ RandomPoint
    \/ HillClimbingStart
    \/ HillClimbingLoop
    \/ AdaptiveStepRound
    \/ AdaptiveStepEvaluate
    \/ HillClimbingCompare
    \/ HillClimbingDirection
    \/ RandomPerturbationStart
    \/ RandomPerturbationRound
    \/ RandomPerturbationEvaluate

SpecSearch == InitSearch /\ [][NextSearch]_vars

\* the random source is fair: a step that can change the state is taken
SpecSearchFair == SpecSearch /\ WF_vars(NextSearch)

(***************************************************************************)
(* The amount of domination (AMOSA.py:251-258).  A quotient is the record  *)
(* [num, den] of whole numbers.                                            *)
(***************************************************************************)
RECURSIVE ColumnMax(_, _, _)
\* np.nanmax(f, axis = 0)[k] from row i on
ColumnMax(f, k, i) ==
    IF i = Len(f) THEN f[i][k]
    ELSE LET m == ColumnMax(f, k, i + 1)
         IN  IF f[i][k] >= m THEN f[i][k] ELSE m

RECURSIVE ColumnMin(_, _, _)
\* np.nanmin(f, axis = 0)[k] from row i on
ColumnMin(f, k, i) ==
    IF i = Len(f) THEN f[i][k]
    ELSE Min(f[i][k], ColumnMin(f, k, i + 1))

compute_fitness_range(pts, current_point, new_point) ==
    LET f == [i \in DOMAIN pts |-> pts[i].f] \o <<current_point.f, new_point.f>>
    IN  [k \in DOMAIN current_point.f |-> ColumnMax(f, k, 1) - ColumnMin(f, k, 1)]

Abs(n) == IF n < 0 THEN -n ELSE n

RECURSIVE ProdQuot(_, _, _, _)
\* np.prod([abs(i - j) / k for i, j, k in zip(x["f"], y["f"], r)]) from
\* index i on, no k being 0
ProdQuot(x, y, r, i) ==
    IF i > Min(Min(Len(x.f), Len(y.f)), Len(r)) THEN [num |-> 1, den |-> 1]
    ELSE LET rest == ProdQuot(x, y, r, i + 1)
         IN  [num |-> Abs(x.f[i] - y.f[i]) * rest.num, den |-> r[i] * rest.den]

\* domination_amount(x, y, r): the outcomes the call can have.  A k of 0
\* makes abs(i - j) / k a numpy division by zero: a RuntimeWarning, which
\* warnings.filterwarnings("error") of AMOSA.__init__ (line 422) raises as
\* an exception, and NaN or inf as the quotient otherwise
domination_amount(x, y, r, warnings_are_errors) ==
    IF \E i \in 1..Min(Min(Len(x.f), Len(y.f)), Len(r)) : r[i] = 0
    THEN IF warnings_are_errors
         THEN [pc |-> "raised", value |-> [num |-> 0, den |-> 0]]
         ELSE [pc |-> "returned", value |-> [num |-> 0, den |-> 0]]
    ELSE [pc |-> "returned", value |-> ProdQuot(x, y, r, 1)]

(***************************************************************************)
(* SpecAmount: one call of domination_amount on two of the points the      *)
(* range was computed from, points of the test problem.                    *)
(***************************************************************************)
InitAmount ==
    /\ FirstIdle /\ TypedIdle /\ ConfigIdle /\ ClusteringIdle /\ SearchIdle /\ RunIdle
    /\ MergeIdle
    /\ daArchive \in SeqsUpTo(TestPoints, MaxRangeArchive)
    /\ daCurrent \in TestPoints
    /\ daNew \in TestPoints
    /\ daWarningsAreErrors \in BOOLEAN
    /\ daA = NoPoint
    /\ daB = NoPoint
    /\ daPc = "start"
    /\ daValue = [num |-> 0, den |-> 1]

DominationAmount(a, b) ==
    /\ daPc = "start"
    /\ LET r == compute_fitness_range(daArchive, daCurrent, daNew)
           out == domination_amount(a, b, r, daWarningsAreErrors)
       IN  /\ daPc' = out.pc
           /\ daValue' = out.value
    /\ daA' = a
    /\ daB' = b
    /\ UNCHANGED <<daArchive, daCurrent, daNew, daWarningsAreErrors, notDaVars>>

NextAmount ==
    \E a, b \in Range(daArchive) \cup {daCurrent, daNew} : DominationAmount(a, b)

SpecAmount == InitAmount /\ [][NextAmount]_vars

(***************************************************************************)
(* SpecRun: one call of AMOSA.run on an engine built from a configuration. *)
(* The values of the configuration are held in halves, as in SpecConfig;   *)
(* the engine reads the limits and the counts as whole numbers.  The       *)
(* temperature is a quotient [num, den] of halves.  run's text, lines      *)
(* 450-501, is the source of the path selection, of the assertion on the   *)
(* archive and of the finalisation; the helpers it calls that have no      *)
(* text in src/ (__read_checkpoint_minimize, __read_checkpoint_hill_climb, *)
(* __initial_hill_climbing, __archive_from_json, __random_archive,         *)
(* __save_checkpoint_minimize, __main_loop) follow the specification's     *)
(* description of them.  The cache directory is SpecPersist's subject and  *)
(* is not part of this state.                                              *)
(***************************************************************************)
MinimizeCheckpoint == "minimize_checkpoint.json"
HillClimbCheckpoint == "hill_climb_checkpoint.json"

\* the if/elif chain of run
initialisation_path_hill_climb_first(minimize_exists, hill_climb_exists, improve_given) ==
    IF hill_climb_exists THEN "hill_climb_checkpoint"
    ELSE IF minimize_exists THEN "minimize_checkpoint"
    ELSE IF improve_given THEN "improve"
    ELSE "random_archive"

initialisation_path(minimize_exists, hill_climb_exists, improve_given) ==
    IF minimize_exists THEN "minimize_checkpoint"
    ELSE IF hill_climb_exists THEN "hill_climb_checkpoint"
    ELSE IF improve_given THEN "improve"
    ELSE "random_archive"

remove_infeasible(constrained, pts) ==
    IF constrained THEN FeasibleOf(pts) ELSE pts

\* os.remove: FileNotFoundError when the file is not there
os_remove(files, name) ==
    [raised |-> name \notin files, files |-> files \ {name}]

\* the engine's fields, whole numbers out of the configuration's halves
archive_hard_limit(c) == c.archive_hard_limit \div Unit
archive_soft_limit(c) == c.archive_soft_limit \div Unit
clustering_max_iterations(c) == c.clustering_max_iterations \div Unit
annealing_iterations(c) == c.annealing_iterations \div Unit

\* temperatures
Temperature(halves) == [num |-> halves, den |-> 1]
Hotter(t, halves) == t.num > halves * t.den
Cooled(t, cooling_factor) ==
    [num |-> t.num * cooling_factor, den |-> t.den * Unit]
RECURSIVE CooledTimes(_, _, _)
CooledTimes(t, cooling_factor, n) ==
    IF n = 0 THEN t ELSE CooledTimes(Cooled(t, cooling_factor), cooling_factor, n - 1)

\* the clustering run calls when the archive is longer than limit
ClusterOver(pts, limit, c, constrained) ==
    IF Len(pts) > limit
    THEN clustering(pts, constrained, archive_hard_limit(c),
                    clustering_max_iterations(c))
    ELSE {[raised |-> FALSE, out |-> pts]}

\* the unconstrained problem is test.py's (f = x), on [0, 0] and four
\* decision vectors that do not dominate one another, all at whole
\* distances; the constrained one is SpecClustering's
RunPoints(constrained) ==
    IF constrained
    THEN {LinePoint(0, 0, TRUE), LinePoint(1, 0, TRUE), LinePoint(0, 1, TRUE)}
    ELSE {TestPoint(x) :
            x \in {<<0, 0>>, <<0, 42>>, <<16, 30>>, <<28, 21>>, <<36, 15>>}}

\* what a run is given: the archive of a checkpoint or of a prior run, the
\* pool of the hill climber
GivenArchives(constrained) ==
    {l \in SeqsUpTo(RunPoints(constrained), MaxGiven) :
        \A i, j \in DOMAIN l : i # j => l[i] # l[j]}

RunConfigs ==
    [archive_hard_limit : {Unit, 2 * Unit, 4 * Unit},
     archive_soft_limit : {4 * Unit},
     archive_gamma : {Unit},
     clustering_max_iterations : {DefaultClusteringMaxIterations * Unit},
     hill_climbing_iterations : {Unit},
     initial_temperature : {2 * Unit, 4 * Unit},
     final_temperature : {1, 3},
     cooling_factor : {1, Unit},
     annealing_iterations : {Unit},
     annealing_strength : {Unit},
     early_termination_window : {0, Unit}]

InitRun ==
    /\ FirstIdle /\ TypedIdle /\ ConfigIdle /\ ClusteringIdle /\ SearchIdle
    /\ AmountIdle /\ MergeIdle
    /\ rConfig \in RunConfigs
    /\ rConstrained \in BOOLEAN
    /\ rFiles \in SUBSET {MinimizeCheckpoint, HillClimbCheckpoint}
    /\ rImprove \in BOOLEAN
    /\ rRemove \in BOOLEAN
    /\ rPath = "none"
    /\ rHillClimbed = FALSE
    /\ rPc = "config"
    /\ rArchive = <<>>
    /\ rStartLen = 0
    /\ rTemperature = Temperature(0)
    /\ rSteps = 0
    /\ rTrials = 0
    /\ rEarly = FALSE

\* AMOSAConfig(...) and AMOSA(config)
ConstructEngine ==
    /\ rPc = "config"
    /\ rPc' = IF AMOSAConfig_asserts(rConfig) THEN "constructed" ELSE "rejected"
    /\ UNCHANGED <<rConfig, rConstrained, rFiles, rImprove, rRemove, rPath,
                   rHillClimbed, rArchive, rStartLen, rTemperature, rSteps,
                   rTrials, rEarly, notRVars>>

\* the outcomes of run up to the call of __main_loop: given is the archive
\* of the checkpoint, the pool of the hill climber or the prior archive,
\* done the temperature steps the minimize checkpoint has behind it
Initialisations(path, given, done) ==
    LET initial == Temperature(rConfig.initial_temperature)
        hard == archive_hard_limit(rConfig)
        Saved(files) == files \cup {MinimizeCheckpoint}
        Removed(files) ==
            IF rRemove THEN os_remove(files, HillClimbCheckpoint)
            ELSE [raised |-> FALSE, files |-> files]
        Outcome(r, files, climbed) ==
            IF r.raised
            THEN [pc |-> "raised", archive |-> rArchive, files |-> files,
                  temperature |-> initial, steps |-> 0, climbed |-> climbed]
            ELSE LET rm == Removed(Saved(files))
                 IN  [pc |-> IF rm.raised THEN "file_not_found"
                             ELSE IF Len(r.out) = 0 THEN "raised"
                             ELSE "annealing",
                      archive |-> r.out, files |-> rm.files,
                      temperature |-> initial, steps |-> 0, climbed |-> climbed]
    IN  CASE path = "minimize_checkpoint" ->
               {[pc |-> IF Len(given) = 0 THEN "raised" ELSE "annealing",
                 archive |-> given, files |-> rFiles,
                 temperature |->
                     CooledTimes(initial, rConfig.cooling_factor, done),
                 steps |-> done, climbed |-> FALSE]}
          [] path = "hill_climb_checkpoint" ->
               {Outcome(r, rFiles, TRUE) :
                   r \in ClusterOver(remove_dominated(given), hard, rConfig,
                                     rConstrained)}
          [] path = "improve" ->
               {Outcome(r, rFiles, FALSE) :
                   r \in ClusterOver(given, hard, rConfig, rConstrained)}
          [] OTHER ->
               IF Len(given) = 0 THEN {}
               ELSE {Outcome([raised |-> FALSE, out |-> remove_dominated(given)],
                             rFiles \cup {HillClimbCheckpoint}, TRUE)}

RunInitialise ==
    /\ rPc = "constructed"
    /\ LET path == initialisation_path(MinimizeCheckpoint \in rFiles,
                                       HillClimbCheckpoint \in rFiles, rImprove)
       IN  \E given \in GivenArchives(rConstrained), done \in 0..1 :
           \E o \in Initialisations(path, given, done) :
               /\ path = "minimize_checkpoint" \/ done = 0
               /\ rPath' = path
               /\ rPc' = o.pc
               /\ rArchive' = o.archive
               /\ rStartLen' = Len(o.archive)
               /\ rFiles' = o.files
               /\ rTemperature' = o.temperature
               /\ rSteps' = o.steps
               /\ rHillClimbed' = o.climbed
    /\ UNCHANGED <<rConfig, rConstrained, rImprove, rRemove, rTrials, rEarly,
                   notRVars>>

\* one trial of __main_loop: a candidate y is drawn; when it is accepted it
\* is inserted and the archive is pruned if it is over the soft limit
AnnealingTrial ==
    /\ rPc = "annealing"
    /\ Hotter(rTemperature, rConfig.final_temperature)
    /\ rTrials < annealing_iterations(rConfig)
    /\ \E y \in RunPoints(rConstrained), accepted \in BOOLEAN :
       \E r \in IF accepted
                THEN ClusterOver(add_to_archive(rArchive, y),
                                 archive_soft_limit(rConfig), rConfig,
                                 rConstrained)
                ELSE {[raised |-> FALSE, out |-> rArchive]} :
           /\ rPc' = IF r.raised THEN "raised" ELSE "annealing"
           /\ rArchive' = IF r.raised THEN rArchive ELSE r.out
    /\ rTrials' = rTrials + 1
    /\ UNCHANGED <<rConfig, rConstrained, rFiles, rImprove, rRemove, rPath,
                   rHillClimbed, rStartLen, rTemperature, rSteps, rEarly,
                   notRVars>>

\* the end of a temperature step of __main_loop: the temperature goes to
\* the final one on early termination, is multiplied by the cooling factor
\* otherwise, and the checkpoint is written
TemperatureStep ==
    /\ rPc = "annealing"
    /\ Hotter(rTemperature, rConfig.final_temperature)
    /\ rTrials = annealing_iterations(rConfig)
    /\ rSteps < MaxTemperatureSteps
    /\ \E early \in IF rConfig.early_termination_window > 0 THEN BOOLEAN
                    ELSE {FALSE} :
           /\ rTemperature' =
                  IF early THEN Temperature(rConfig.final_temperature)
                  ELSE Cooled(rTemperature, rConfig.cooling_factor)
           /\ rEarly' = (rEarly \/ early)
    /\ rSteps' = rSteps + 1
    /\ rTrials' = 0
    /\ rFiles' = rFiles \cup {MinimizeCheckpoint}
    /\ UNCHANGED <<rConfig, rConstrained, rImprove, rRemove, rPath,
                   rHillClimbed, rPc, rArchive, rStartLen, notRVars>>

\* while temperature > final temperature: the loop is left
AnnealingEnds ==
    /\ rPc = "annealing"
    /\ ~ Hotter(rTemperature, rConfig.final_temperature)
    /\ rPc' = "finalizing"
    /\ UNCHANGED <<rConfig, rConstrained, rFiles, rImprove, rRemove, rPath,
                   rHillClimbed, rArchive, rStartLen, rTemperature, rSteps,
                   rTrials, rEarly, notRVars>>

\* lines 493-501
Finalise ==
    /\ rPc = "finalizing"
    /\ LET nondominated ==
               remove_dominated(remove_infeasible(rConstrained, rArchive))
           rm == IF rRemove THEN os_remove(rFiles, MinimizeCheckpoint)
                 ELSE [raised |-> FALSE, files |-> rFiles]
       IN  \E r \in ClusterOver(nondominated, archive_hard_limit(rConfig),
                                rConfig, rConstrained) :
               /\ rArchive' = IF r.raised THEN nondominated ELSE r.out
               /\ rPc' = IF r.raised THEN "raised"
                         ELSE IF rm.raised THEN "file_not_found" ELSE "done"
               /\ rFiles' = IF r.raised THEN rFiles ELSE rm.files
    /\ UNCHANGED <<rConfig, rConstrained, rImprove, rRemove, rPath,
                   rHillClimbed, rStartLen, rTemperature, rSteps, rTrials,
                   rEarly, notRVars>>

NextRun ==
    \/ ConstructEngine
    \/ RunInitialise
    \/ AnnealingTrial
    \/ TemperatureStep
    \/ AnnealingEnds
    \/ Finalise

SpecRun == InitRun /\ [][NextRun]_vars

\* __main_loop is one thread: it goes on while it can.  The schedule does
\* not read the archive: the fair specification takes the runs of the
\* constrained problem under limits that its points never exceed
InitRunFair ==
    /\ InitRun
    /\ rConstrained
    /\ rConfig.archive_hard_limit = rConfig.archive_soft_limit

SpecRunFair == InitRunFair /\ [][NextRun]_vars /\ WF_vars(NextRun)

(***************************************************************************)
(* SpecMerge: one call of nondominated_merge on a list of archives of the  *)
(* problem of test.py (f = x, no constraints).  The archives are lists of  *)
(* evaluated points, no decision vector twice in one archive; one point    *)
(* may be in several archives.  print_progressbar writes to the terminal   *)
(* and is not part of the state.                                           *)
(***************************************************************************)
RECURSIVE MergeLoop(_, _, _)
\* "for i, archive in enumerate(archives): for x in archive:
\* add_to_archive(nondominated_archive, x)"
MergeLoop(acc, archives, i) ==
    IF i > Len(archives) THEN acc
    ELSE MergeLoop(InsertAll(acc, archives[i], 1), archives, i + 1)

\* a plausible slip: the result list is started again for every archive
nondominated_merge_list_per_archive(archives) ==
    IF Len(archives) = 0 THEN <<>>
    ELSE InsertAll(<<>>, archives[Len(archives)], 1)

nondominated_merge(archives) == MergeLoop(<<>>, archives, 1)

MergePoints == {TestPoint(<<a, b>>) : a \in 0..1, b \in 0..1}

MergeArchives ==
    {l \in SeqsUpTo(MergePoints, MaxMergedLen) :
        \A i, j \in DOMAIN l : i # j => l[i] # l[j]}

InitMerge ==
    /\ FirstIdle /\ TypedIdle /\ ConfigIdle /\ ClusteringIdle /\ SearchIdle
    /\ AmountIdle /\ RunIdle
    /\ mArchives \in SeqsUpTo(MergeArchives, MaxMerged)
    /\ mPc = "start"
    /\ mOut = <<>>

NondominatedMerge ==
    /\ mPc = "start"
    /\ mOut' = nondominated_merge(mArchives)
    /\ mPc' = "returned"
    /\ UNCHANGED <<mArchives, notMVars>>

NextMerge == NondominatedMerge

SpecMerge == InitMerge /\ [][NextMerge]_vars

(***************************************************************************)
(* The claims.                                                             *)
(***************************************************************************)

\* C1: after any sequence of add_to_archive calls from the empty archive no
\* member of the archive dominates another member
C1_NoMemberDominatesAnother ==
    \A i, j \in DOMAIN archive : i # j => ~ dominates(archive[i], archive[j])

\* C2: after any sequence of add_to_archive calls from the empty archive no
\* two members of the archive have equal decision vectors
C2_NoEqualDecisionVectors ==
    \A i, j \in DOMAIN archive : i # j => ~ is_the_same(archive[i], archive[j])

\* the same point was offered twice, the second time to an archive holding it
C2_Witness ==
    /\ isRepeat
    /\ Len(archive) >= 2
    /\ \E i \in DOMAIN archive : archive[i] = lastPoint

\* C3: inserting a point that was inserted by the call before leaves the
\* size of the archive as the first of the two calls left it
C3_RepeatKeepsSize == isRepeat => Len(archive) = lenBefore

\* a is no larger than b in every component and smaller in at least one
ParetoBetter(a, b) ==
    /\ \A i \in 1..Len(a) : a[i] <= b[i]
    /\ \E i \in 1..Len(a) : a[i] < b[i]

IsFeasible(p) == \A i \in 1..Len(p.g) : p.g[i] <= 0

IsInfeasible(p) == \E i \in 1..Len(p.g) : p.g[i] > 0

\* C4: without constraints dominates(x, y) is Pareto dominance of the
\* objectives; [10,20] dominates [15,25], and [10,25] and [15,20] dominate
\* in neither direction
C4_UnconstrainedIsPareto ==
    (cmpDone /\ px.g = NoneG) =>
        /\ domXY <=> ParetoBetter(px.f, py.f)
        /\ (px.x = <<10, 20>> /\ py.x = <<15, 25>>) => domXY
        /\ (px.x = <<10, 25>> /\ py.x = <<15, 20>>) => (~ domXY /\ ~ domYX)

\* [10,20] has been compared with [15,25]
C4_Witness ==
    /\ cmpDone
    /\ px.g = NoneG
    /\ px.x = <<10, 20>>
    /\ py.x = <<15, 25>>
    /\ domXY

\* C5: with constraints dominates(x, y) holds exactly when x is feasible and
\* y is not, or both are infeasible and x's violations Pareto-dominate y's,
\* or both are feasible and x's objectives Pareto-dominate y's
C5_ConstrainedDominance ==
    (cmpDone /\ px.g # NoneG) =>
        (domXY <=>
            \/ IsFeasible(px) /\ IsInfeasible(py)
            \/ IsInfeasible(px) /\ IsInfeasible(py) /\ ParetoBetter(px.g, py.g)
            \/ IsFeasible(px) /\ IsFeasible(py) /\ ParetoBetter(px.f, py.f))

SameRegime(p, q) ==
    \/ p.g = NoneG /\ q.g = NoneG
    \/ p.g # NoneG /\ q.g # NoneG /\ IsFeasible(p) /\ IsFeasible(q)
    \/ p.g # NoneG /\ q.g # NoneG /\ IsInfeasible(p) /\ IsInfeasible(q)

\* C6: dominates(x, x) is false, and for x and y of one regime
\* dominates(x, y) and dominates(y, x) do not hold together
C6_IrreflexiveAsymmetric ==
    cmpDone =>
        /\ ~ domXX
        /\ SameRegime(px, py) => ~ (domXY /\ domYX)

\* C7: remove_dominated returns the members of its input that no member of
\* the input dominates, one for each decision vector
C7_MinimalNonDominatedSubset ==
    rdDone =>
        /\ Range(rdOutput) =
              {p \in Range(rdInput) : ~ \E q \in Range(rdInput) : dominates(q, p)}
        /\ \A i, j \in DOMAIN rdOutput :
              i # j => ~ is_the_same(rdOutput[i], rdOutput[j])

\* C8: decision vectors with the same cache key are equal, so get_objectives
\* never fills a point with the objectives of another decision vector
C8_KeyIdentifiesVector ==
    /\ \A v \in seenX : \A w \in seenX :
          get_cache_key(FreshPoint(v)) = get_cache_key(FreshPoint(w)) => v = w
    /\ lastS # NoPoint =>
          /\ lastS.f = TestEvaluate(lastS.x).f
          /\ lastS.g = TestEvaluate(lastS.x).g

\* C9 as stated: only a miss increments the total-call counter, so it equals
\* the number of misses and of problem.evaluate calls
C9_TotalCallsCountsMisses ==
    /\ total_calls = nMisses
    /\ nEvaluate = nMisses
    /\ cache_hits = nHits

\* C9 as amended: every call increments the total-call counter, a hit
\* increments the cache-hit counter and does not call problem.evaluate, a
\* miss calls it once and stores the result under the key
C9_TotalCallsCountsCalls ==
    /\ total_calls = nHits + nMisses
    /\ nEvaluate = nMisses
    /\ cache_hits = nHits
    /\ \A x \in seenX : get_cache_key(FreshPoint(x)) \in DOMAIN cache
    /\ (lastS # NoPoint) =>
          /\ get_cache_key(lastS) \in DOMAIN cache
          /\ lastS.f = cache[get_cache_key(lastS)].f
          /\ lastS.g = cache[get_cache_key(lastS)].g

\* hits and misses have both happened
C9_Witness == nHits >= 1 /\ nMisses >= 2

\* the dict of a cache: its keys to their values
AsDict(d) ==
    [k \in {d[i].k : i \in DOMAIN d} |-> (CHOOSE e \in Range(d) : e.k = k).v]

RECURSIVE EntryCount(_)
\* the number of entries of the shards named in S
EntryCount(S) ==
    IF S = {} THEN 0
    ELSE LET n == CHOOSE n \in S : TRUE
         IN  Cardinality(DOMAIN Loads(pDir.files[n])) + EntryCount(S \ {n})

\* C10: write(cache) and then read() give back the keys and the values of
\* the cache, whatever the directory held; the shards written have no key
\* in common and their entry counts add up to the cache's
C10_RoundTrip ==
    /\ pPc # "raised"
    /\ pPc = "read" => pRead = AsDict(pCache)
    /\ pPc \in {"written", "read"} =>
          LET shards == {m \in DOMAIN pDir.files : EndsWith(m, DotJson)}
          IN  /\ \A m, n \in shards :
                    m # n => DOMAIN Loads(pDir.files[m]) \cap DOMAIN Loads(pDir.files[n]) = {}
              /\ EntryCount(shards) = Len(pCache)

\* a component of v lies outside the declared bounds
OutOfBounds(v) ==
    \E k \in DOMAIN v : v[k] < lower_bound[k] \/ v[k] > upper_bound[k]

\* C11 as stated: a vector with a component of the wrong runtime type or
\* outside its bounds is rejected and problem.evaluate is not called for it
C11_TypeAndBoundsEnforced ==
    (tcCalls > 0 /\ (~ type_assertion(tcKinds, TestTypes) \/ OutOfBounds(tcX))) =>
        (tcRaised /\ tcEvaluated = 0)

\* C16: constructing an AMOSAConfig succeeds exactly when 0 < hard limit <=
\* soft limit, gamma >= 1, hill-climbing iterations >= 0, clustering
\* iterations > 0, 0 < final < initial temperature, 0 < cooling factor < 1,
\* annealing iterations >= 1, annealing strength >= 1 and early-termination
\* window >= 0; otherwise it raises
C16_ConstructsIffValid ==
    cfgPc \in {"constructed", "raised"} =>
        (cfgPc = "constructed" <=>
            /\ 0 < cfgArgs.archive_hard_limit
            /\ cfgArgs.archive_hard_limit <= cfgArgs.archive_soft_limit
            /\ cfgArgs.archive_gamma >= Unit
            /\ cfgArgs.hill_climbing_iterations >= 0
            /\ cfgArgs.clustering_max_iterations > 0
            /\ 0 < cfgArgs.final_temperature
            /\ cfgArgs.final_temperature < cfgArgs.initial_temperature
            /\ 0 < cfgArgs.cooling_factor
            /\ cfgArgs.cooling_factor < Unit
            /\ cfgArgs.annealing_iterations >= Unit
            /\ cfgArgs.annealing_strength >= Unit
            /\ cfgArgs.early_termination_window >= 0)

\* C12: kmeans_clustering returns min(k, len(points)) points for every
\* k >= 1, and the input itself when k >= len(points)
C12_KmeansSize ==
    (kOp = "kmeans_clustering" /\ kPc # "start") =>
        /\ kPc = "returned"
        /\ Len(kOut) = Min(kNum, Len(kArchive))
        /\ kNum >= Len(kArchive) => kOut = kArchive

\* the number of members of l with a positive constraint value
CountInfeasible(l) == Len(UnfeasibleOf(l))

\* C13: on an archive with constraints clustering returns at most
\* hard_limit points; when at most hard_limit members are feasible the
\* result holds every one of them and at most hard_limit minus their number
\* infeasible ones, and when more are feasible it holds no infeasible one
C13_ClusteringPrefersFeasible ==
    (kOp = "clustering" /\ kConstrained /\ kPc = "returned") =>
        LET feasible == Range(FeasibleOf(kArchive))
            n == Cardinality(feasible)
        IN  /\ Len(kOut) <= kNum
            /\ Range(kOut) \subseteq Range(kArchive)
            /\ n <= kNum =>
                  /\ feasible \subseteq Range(kOut)
                  /\ CountInfeasible(kOut) <= kNum - n
            /\ n > kNum => CountInfeasible(kOut) = 0

\* one feasible and two infeasible members, hard limit 2: the result is the
\* feasible member and one of the infeasible ones
C13_Witness ==
    /\ kOp = "clustering" /\ kConstrained /\ kPc = "returned"
    /\ kNum = 2
    /\ Len(FeasibleOf(kArchive)) = 1
    /\ CountInfeasible(kArchive) = 2
    /\ Len(kOut) = 2
    /\ CountInfeasible(kOut) = 1

\* C17: hill_climbing ends after max_iterations rounds on every problem
\* with at least one variable and from every start point, and the point it
\* returns is the start point or dominates it
C17_HillClimbingTerminates ==
    /\ <>(sPc = "returned")
    /\ [](sOp = "hill_climbing" /\ sPc = "returned" =>
             (sX = sStart \/ dominates(sX, sStart)))

\* C19: random_perturbation and hill_climbing_adaptive_step sample again
\* after a collision with the cache at most max_attempt = num_of_variables
\* times, the first round being the move itself; then the loop ends and
\* the last vector is handed to get_objectives even if the cache holds it
C19_RetriesBounded ==
    /\ sRounds - 1 <= sN
    /\ sPc \in {"step", "perturb"} => sSafety = sN - sRounds
    /\ (sPc \in {"step", "perturb"} /\ sRounds = sN + 1) =>
          ~ ENABLED (AdaptiveStepRound \/ RandomPerturbationRound)
    /\ (sOp = "random_perturbation" /\ sPc = "returned") =>
          /\ is_cached(sProblem, sY)
          /\ sY.f = TestEvaluate(sY.x).f
          /\ sProblem.total_calls = 1
          /\ sProblem.cache_hits = (IF sLastHit THEN 1 ELSE 0)

\* random_perturbation has used every retry and returned a vector that
\* the cache held before
C19_Witness ==
    /\ sOp = "random_perturbation" /\ sPc = "returned"
    /\ sN = MaxVariables
    /\ sRounds = sN + 1
    /\ sLastHit

\* C20: domination_amount(a, b, r) with r = compute_fitness_range(archive,
\* current_point, new_point) never divides by zero: it does not raise, and
\* its value is a quotient with a denominator other than 0
C20_NoDivisionByZero ==
    daPc # "start" =>
        /\ daPc = "returned"
        /\ daValue.den # 0

\* C15: run takes its initialisation path by a fixed priority - the minimize
\* checkpoint first (and then no hill climbing), the hill-climb checkpoint
\* next, a given prior archive next, the fresh hill-climbing initialisation
\* only when there is none of the three - and the annealing loop starts only
\* with a non-empty archive
C15_InitialisationPriority ==
    [][(rPc = "constructed" /\ rPc' # "constructed") =>
          LET minimize_exists == MinimizeCheckpoint \in rFiles
              hill_climb_exists == HillClimbCheckpoint \in rFiles
          IN  /\ minimize_exists =>
                     rPath' = "minimize_checkpoint" /\ ~ rHillClimbed'
              /\ (~ minimize_exists /\ hill_climb_exists) =>
                     rPath' = "hill_climb_checkpoint"
              /\ (~ minimize_exists /\ ~ hill_climb_exists /\ rImprove) =>
                     rPath' = "improve"
              /\ rPath' = "random_archive" <=>
                     (~ minimize_exists /\ ~ hill_climb_exists /\ ~ rImprove)
              /\ rPc' = "annealing" => (Len(rArchive') > 0 /\ rStartLen' > 0)
      ]_vars

\* a run that found both checkpoints and a prior archive, resumed from the
\* minimize checkpoint and is in the annealing loop
C15_Witness ==
    /\ rPath = "minimize_checkpoint"
    /\ HillClimbCheckpoint \in rFiles
    /\ rImprove
    /\ ~ rHillClimbed
    /\ rPc = "annealing"
    /\ rStartLen > 0

\* C14: when run returns, the archive has at most archive_hard_limit
\* members, none with a positive constraint violation, and no member
\* dominates another
C14_FinalArchive ==
    rPc = "done" =>
        /\ Len(rArchive) <= archive_hard_limit(rConfig)
        /\ \A i \in DOMAIN rArchive : IsFeasible(rArchive[i])
        /\ \A i, j \in DOMAIN rArchive :
               ~ ParetoBetter(rArchive[i].f, rArchive[j].f)

RECURSIVE Pow(_, _)
Pow(b, n) == IF n = 0 THEN 1 ELSE b * Pow(b, n - 1)

\* ceil(ln(final / initial) / ln(cooling)): the least n with
\* initial * cooling^n <= final; -1 when there is none within the cap
CoolingSteps(c) ==
    LET reached == {n \in 0..MaxTemperatureSteps :
                       c.initial_temperature * Pow(c.cooling_factor, n)
                           <= c.final_temperature * Pow(Unit, n)}
    IN  IF reached = {} THEN -1
        ELSE CHOOSE n \in reached : \A m \in reached : n <= m

\* C18: the annealing phase terminates - the temperature never rises, the
\* loop is left after at most ceil(ln(final / initial) / ln(cooling))
\* temperature steps, after exactly that many when early termination never
\* fires, and the run goes on through the finalisation to its end
C18_AnnealingTerminates ==
    /\ [][(rPc = "annealing" /\ rPc' = "annealing") =>
             rTemperature'.num * rTemperature.den
                 <= rTemperature.num * rTemperature'.den]_vars
    /\ [](rPc \in {"annealing", "finalizing", "done"} =>
             rSteps <= CoolingSteps(rConfig))
    /\ [](rPc \in {"finalizing", "done"} /\ ~ rEarly =>
             rSteps = CoolingSteps(rConfig))
    /\ (rPc = "annealing") ~> (rPc = "finalizing")
    /\ (rPc = "finalizing") ~> (rPc = "done")

\* a run that started at the initial temperature, took three temperature
\* steps without early termination and came to its end
C18_Witness ==
    /\ rPc = "done"
    /\ rPath = "random_archive"
    /\ ~ rEarly
    /\ rTrials = 0
    /\ rSteps = 3
    /\ CoolingSteps(rConfig) = 3

\* C21: kmeans_clustering with 1 < k < len(points) on points whose objective
\* vectors are all the same returns points of its input; it does not raise
\* and does not end the process
C21_NoCrashOnDegenerate ==
    (/\ kOp = "kmeans_clustering" /\ kPc # "start"
     /\ 1 < kNum /\ kNum < Len(kArchive)
     /\ \A i, j \in DOMAIN kArchive : kArchive[i].f = kArchive[j].f) =>
        /\ kPc = "returned"
        /\ Range(kOut) \subseteq Range(kArchive)

\* C23: when the points given to kmeans_clustering have different decision
\* vectors, so have the points it returns - no point is returned twice -
\* and every point returned is one of the input
C23_ClusteringKeepsDistinct ==
    (/\ kOp = "kmeans_clustering" /\ kPc = "returned"
     /\ \A i, j \in DOMAIN kArchive :
            i # j => kArchive[i].x # kArchive[j].x) =>
        /\ \A i, j \in DOMAIN kOut : i # j => kOut[i].x # kOut[j].x
        /\ Range(kOut) \subseteq Range(kArchive)

\* the points of all the archives given to nondominated_merge
MergedInputs == UNION {Range(mArchives[i]) : i \in DOMAIN mArchives}

\* C24: nondominated_merge loses no Pareto-optimal point - every point of
\* the input archives that no point of them dominates is in the result,
\* once - and every point of the result comes from an input archive
C24_MergeKeepsOptimal ==
    mPc = "returned" =>
        /\ \A p \in MergedInputs :
               (~ \E q \in MergedInputs : ParetoBetter(q.f, p.f)) =>
                   Cardinality({i \in DOMAIN mOut : mOut[i].x = p.x}) = 1
        /\ Range(mOut) \subseteq MergedInputs

\* two archives that share their optimal point [0, 0], each with a point of
\* its own that [0, 0] dominates
C24_Witness ==
    /\ mPc = "returned"
    /\ Len(mArchives) = 2
    /\ TestPoint(<<0, 0>>) \in Range(mArchives[1]) \cap Range(mArchives[2])
    /\ TestPoint(<<0, 1>>) \in Range(mArchives[1])
    /\ TestPoint(<<1, 0>>) \in Range(mArchives[2])
    /\ mOut = <<TestPoint(<<0, 0>>)>>

\* C25: with remove_checkpoints false run deletes no checkpoint file; with
\* remove_checkpoints true every checkpoint file run deletes is there when
\* it is deleted, in every initialisation path, so run never fails with a
\* file-removal error, and the minimize checkpoint is gone when run has
\* come to its end
C25_CheckpointRemovalSafe ==
    /\ [][~ rRemove => rFiles \subseteq rFiles']_vars
    /\ [](rPc # "file_not_found")
    /\ [](rPc = "done" /\ rRemove => MinimizeCheckpoint \notin rFiles)

\* C26: whenever hill_climbing_adaptive_step has returned, the point it was
\* given carries the objectives and constraints of the decision vector it
\* holds now; a step that returns in its first round, the variable being at
\* the bound in the chosen direction, leaves the point as it was given
C26_StepLeavesPointConsistent ==
    /\ sPc = "compare" => sY = TestPoint(sY.x)
    /\ (sPc = "compare" /\ sSafety = max_attempt(sN) - 1 /\ sY.x = sX.x)
           => sY = sX

\* the decision vector of s has one component for each variable, each
\* within the bounds of its variable
InBounds(s) ==
    /\ Len(s.x) = sN
    /\ \A i \in 1..sN : 0 <= s.x[i] /\ s.x[i] <= sUpper[i]

\* C22: every decision vector that random_point draws, that
\* random_perturbation makes of a point within the bounds and that
\* hill_climbing_adaptive_step makes of a point within the bounds has
\* num_of_variables components, each within the bounds of its variable, in
\* both directions, at a bound and with lower_bound = upper_bound
C22_VectorsInBounds ==
    /\ sY # NoPoint => InBounds(sY)
    /\ sX # NoPoint => InBounds(sX)

\* hill_climbing_adaptive_step has moved a variable up to its upper bound,
\* the other variable having lower_bound = upper_bound
C22_Witness ==
    /\ sOp = "hill_climbing" /\ sPc = "compare"
    /\ sN = MaxVariables
    /\ \E i \in 1..sN : sUpper[i] = 0
    /\ sUp = 1
    /\ sUpper[sD] = MaxUpper
    /\ sX.x[sD] < MaxUpper
    /\ sY.x[sD] = MaxUpper

====
